---- MODULE Spec2Model ----
(***************************************************************************)
(* Bees-algorithm optimiser for the rocket / module allocation problem.    *)
(*   src/src/model.py      Settings, Solution, validators, cost, the       *)
(*                         random generator and its capacity-repair loop   *)
(*   src/src/algorithm.py  BeesSolver: mutation operators, neighbourhood   *)
(*                         search, generations                             *)
(* Arrays keep the source's 0-based indices: a vector of length n is a     *)
(* function on 0..n-1, a matrix a function of rows.  Random draws are      *)
(* nondeterministic choices over every value the draw can produce.         *)
(***************************************************************************)
EXTENDS Integers, Sequences, FiniteSets, TLC

VARIABLES
    settings,                 \* the Settings object of the run
    gpc,                      \* position inside generate_random_solution
    rocket_type_allocation,   \* first argument of Solution(...), once drawn
    allocation,               \* local `allocation` of generate_random_modules_allocation
    generated,                \* value returned by generate_random_solution
    raised,                   \* exception that left the running call ("none" if none)
    transfers,                \* capacity-repair iterations executed by the running call
    solver,                   \* the BeesSolver object's configuration fields
    solution,                 \* the Solution object handed to a mutation operator
    result,                   \* value returned by __find_best_neighbour
    op,                       \* the operation that ran last
    population,               \* BeesSolver.population (population[0] is the first element)
    epc,                      \* position inside find_best_solution
    remaining,                \* iterations of find_best_solution's loop still to run
    returned,                 \* value returned by find_best_solution
    cost,                     \* <<c>> when the call that ran last returned the cost c
    heap,                     \* the Solution objects alive, by object identity
    refs,                     \* BeesSolver.population as the list of object identities it holds
    written                   \* the objects the last call changed in place

genvars == <<gpc, rocket_type_allocation, allocation, generated, transfers>>
mutvars == <<solution, result>>
engvars == <<population, epc, remaining, returned, cost>>
objvars == <<heap, refs, written>>
vars == <<settings, gpc, rocket_type_allocation, allocation, generated, raised, transfers,
          solver, solution, result, op, population, epc, remaining, returned, cost,
          heap, refs, written>>

(***************************************************************************)
(* Bounds of the explored instances.                                       *)
(***************************************************************************)
MaxRockets == 3
MaxModuleTypes == 2
MaxCapacity == 2
\* the largest total demand, sum(module_amounts), of an instance
MaxModules == 3
\* the largest modules_mutations and rockets_type_mutations of a solver
MaxMutations == 1
\* the largest site size (neighbours_count) of a solver
MaxSiteSize == 1
\* the largest population_size, elite_sites and normal_sites of a solver
MaxPopulationSize == 2
MaxSites == 1
\* the largest `iterations` handed to find_best_solution
MaxIterations == 1
\* fleet and module types of the instances whole populations are evolved on
EngineRockets == 2
EngineModuleTypes == 1

(***************************************************************************)
(* Cost tables of src/example.py, rounded to integers (TLA+ has no floats).*)
(***************************************************************************)
ExampleFuelCosts == <<40, 47>>
ExampleAdditionalFuelCosts == << <<3, 6, 6, 3>>, <<9, 9, 9, 2>> >>

\* Settings.__init__: the seven fields, stored as given.
Settings(nrt, nmt, nr, cap, amounts) ==
    [ num_rocket_types      |-> nrt,
      num_module_types      |-> nmt,
      num_rockets           |-> nr,
      rocket_capacity       |-> cap,
      additional_fuel_costs |-> [t \in 0..(nrt - 1) |->
                                   [m \in 0..(nmt - 1) |-> ExampleAdditionalFuelCosts[t + 1][m + 1]]],
      fuel_costs            |-> [t \in 0..(nrt - 1) |-> ExampleFuelCosts[t + 1]],
      module_amounts        |-> amounts ]

\* Solution.__init__
Solution(types, modules) ==
    [ rocket_type_allocation |-> types, module_allocation |-> modules ]

NoSolution == Solution(<<>>, <<>>)

\* BeesSolver.__init__: the configuration fields, stored as given
BeesSolver(ps, mm, rtm, es, ns, ess, nss) ==
    [ population_size        |-> ps,
      modules_mutations      |-> mm,
      rockets_type_mutations |-> rtm,
      elite_sites            |-> es,
      normal_sites           |-> ns,
      elite_site_size        |-> ess,
      normal_site_size       |-> nss ]

NoSolver == BeesSolver(0, 0, 0, 0, 0, 0, 0)

(***************************************************************************)
(* numpy helpers                                                           *)
(***************************************************************************)
RECURSIVE SumUpTo(_, _)
\* f[0] + ... + f[n-1]
SumUpTo(f, n) == IF n = 0 THEN 0 ELSE SumUpTo(f, n - 1) + f[n - 1]

\* vector.sum()
VSum(f) == SumUpTo(f, Cardinality(DOMAIN f))

\* matrix.sum(axis=1): the row sums
RowSums(a) == [r \in DOMAIN a |-> VSum(a[r])]

\* matrix.sum(axis=0): the column sums
ColSums(a, nmt) == [m \in 0..(nmt - 1) |-> VSum([r \in DOMAIN a |-> a[r][m]])]

\* np.argmax: the first index holding the largest value
ArgMax(f) == CHOOSE i \in DOMAIN f :
                /\ \A j \in DOMAIN f : f[j] <= f[i]
                /\ \A j \in DOMAIN f : j < i => f[j] < f[i]

\* np.argmin: the first index holding the smallest value
ArgMin(f) == CHOOSE i \in DOMAIN f :
                /\ \A j \in DOMAIN f : f[j] >= f[i]
                /\ \A j \in DOMAIN f : j < i => f[j] > f[i]

Min2(a, b) == IF a <= b THEN a ELSE b

\* The instances the runs are started on, infeasible ones included.
ModuleAmounts(nmt) ==
    { amounts \in [0..(nmt - 1) -> 0..MaxModules] : VSum(amounts) <= MaxModules }

SettingsSet ==
    UNION { { Settings(Len(ExampleFuelCosts), nmt, nr, cap, amounts) :
                nr \in 1..MaxRockets, cap \in 1..MaxCapacity, amounts \in ModuleAmounts(nmt) } :
            nmt \in 1..MaxModuleTypes }

(***************************************************************************)
(* model.py: validators                                                    *)
(***************************************************************************)
is_valid_capacity(sol, s) ==
    \A r \in DOMAIN sol.module_allocation :
        RowSums(sol.module_allocation)[r] <= s.rocket_capacity

is_valid_module_total(sol, s) ==
    \A m \in 0..(s.num_module_types - 1) :
        ColSums(sol.module_allocation, s.num_module_types)[m] = s.module_amounts[m]

\* the guard of the ValueError in generate_random_modules_allocation
NotEnoughCapacity(s) ==
    s.num_rockets * s.rocket_capacity < VSum(s.module_amounts)

(***************************************************************************)
(* model.py: random generator                                              *)
(***************************************************************************)
\* np.random.randint(low=0, high=num_rocket_types, size=num_rockets)
generate_random_rockets_type_allocation(s) ==
    [0..(s.num_rockets - 1) -> 0..(s.num_rocket_types - 1)]

\* np.random.multinomial(amount, equal probabilities): every way of splitting
\* amount over n rockets
Multinomial(amount, n) ==
    { f \in [0..(n - 1) -> 0..amount] : VSum(f) = amount }

RECURSIVE ColumnDraws(_, _)
\* the draws of the first k iterations of the multinomial loop, one column each
ColumnDraws(s, k) ==
    IF k = 0 THEN { <<>> }
    ELSE { Append(c, d) : c \in ColumnDraws(s, k - 1),
                          d \in Multinomial(s.module_amounts[k - 1], s.num_rockets) }

\* allocation after the multinomial loop: column m is the draw for module_amounts[m]
InitialAllocations(s) ==
    { [r \in 0..(s.num_rockets - 1) |-> [m \in 0..(s.num_module_types - 1) |-> c[m + 1][r]]] :
        c \in ColumnDraws(s, s.num_module_types) }

\* the while condition: np.any(allocation.sum(axis=1) > rocket_capacity)
Overloaded(a, s) == \E r \in DOMAIN a : RowSums(a)[r] > s.rocket_capacity

\* the rocket the transfer of one loop iteration goes to
RepairTargetIsSource(a) == ArgMax(RowSums(a))

RepairTarget(a) == ArgMin(RowSums(a))

\* one iteration of the capacity-repair loop, the receiving rocket's += forgotten
RepairStepNoCredit(a, s) ==
    LET rocket_module_counts == RowSums(a)
        max_rocket_index == ArgMax(rocket_module_counts)
        module_index == ArgMax(a[max_rocket_index])
        num_modules_to_transfer ==
            Min2(a[max_rocket_index][module_index],
                 rocket_module_counts[max_rocket_index] - s.rocket_capacity)
    IN  [a EXCEPT ![max_rocket_index][module_index] = @ - num_modules_to_transfer]

RepairStep(a, s) ==
    LET rocket_module_counts == RowSums(a)
        max_rocket_index == ArgMax(rocket_module_counts)
        min_rocket_index == RepairTarget(a)
        module_index == ArgMax(a[max_rocket_index])
        num_modules_to_transfer ==
            Min2(a[max_rocket_index][module_index],
                 rocket_module_counts[max_rocket_index] - s.rocket_capacity)
        minus == [a EXCEPT ![max_rocket_index][module_index] = @ - num_modules_to_transfer]
    IN  [minus EXCEPT ![min_rocket_index][module_index] = @ + num_modules_to_transfer]

\* the transfer counter stops counting one past the bound it is compared with
TransferLimit(s) == s.num_rockets * s.num_module_types + 1

(***************************************************************************)
(* generate_random_solution, one step per evaluation step of               *)
(*   Solution(generate_random_rockets_type_allocation(settings),           *)
(*            generate_random_modules_allocation(settings))                *)
(* Python evaluates the arguments left to right.                           *)
(***************************************************************************)
GenStart(entry) ==
    /\ settings \in SettingsSet
    /\ gpc = entry
    /\ rocket_type_allocation = <<>>
    /\ allocation = <<>>
    /\ generated = NoSolution
    /\ raised = "none"
    /\ transfers = 0
    /\ solver = NoSolver
    /\ solution = NoSolution
    /\ result = NoSolution
    /\ op = "none"
    /\ population = <<>>
    /\ epc = "idle"
    /\ remaining = 0
    /\ returned = NoSolution
    /\ cost = <<>>
    /\ heap = <<>>
    /\ refs = <<>>
    /\ written = {}

\* generate_random_solution(settings) is called
GenInit == GenStart("call")

\* generate_random_modules_allocation(settings) is called on its own
AllocInit == GenStart("check")

\* first argument: the rocket types are drawn
GenDrawTypes ==
    /\ gpc = "call"
    /\ rocket_type_allocation' \in generate_random_rockets_type_allocation(settings)
    /\ gpc' = "check"
    /\ UNCHANGED <<settings, allocation, generated, raised, transfers>>
    /\ UNCHANGED <<solver, solution, result, op>>
    /\ UNCHANGED engvars
    /\ UNCHANGED objvars

\* second argument, model.py:120-121: the feasibility test and its ValueError
GenCheck ==
    /\ gpc = "check"
    /\ IF NotEnoughCapacity(settings)
         THEN gpc' = "raised" /\ raised' = "ValueError"
         ELSE gpc' = "allocate" /\ raised' = raised
    /\ UNCHANGED <<settings, rocket_type_allocation, allocation, generated, transfers>>
    /\ UNCHANGED <<solver, solution, result, op>>
    /\ UNCHANGED engvars
    /\ UNCHANGED objvars

\* model.py:123-126: zeros, then one multinomial draw per module type
GenAllocate ==
    /\ gpc = "allocate"
    /\ allocation' \in InitialAllocations(settings)
    /\ gpc' = "repair"
    /\ UNCHANGED <<settings, rocket_type_allocation, generated, raised, transfers>>
    /\ UNCHANGED <<solver, solution, result, op>>
    /\ UNCHANGED engvars
    /\ UNCHANGED objvars

\* model.py:128-144: one iteration of the while loop
GenRepair ==
    /\ gpc = "repair"
    /\ Overloaded(allocation, settings)
    /\ allocation' = RepairStep(allocation, settings)
    /\ transfers' = IF transfers < TransferLimit(settings) THEN transfers + 1 ELSE transfers
    /\ UNCHANGED <<settings, gpc, rocket_type_allocation, generated, raised>>
    /\ UNCHANGED <<solver, solution, result, op>>
    /\ UNCHANGED engvars
    /\ UNCHANGED objvars

\* model.py:128,146: the loop condition fails, `return allocation`
GenReturnAllocation ==
    /\ gpc = "repair"
    /\ ~Overloaded(allocation, settings)
    /\ gpc' = "allocated"
    /\ UNCHANGED <<settings, rocket_type_allocation, allocation, generated, raised, transfers>>
    /\ UNCHANGED <<solver, solution, result, op>>
    /\ UNCHANGED engvars
    /\ UNCHANGED objvars

\* model.py:159-164: the Solution is built and validated
GenValidate ==
    /\ gpc = "allocated"
    /\ LET built == Solution(rocket_type_allocation, allocation)
       IN  IF is_valid_capacity(built, settings) /\ is_valid_module_total(built, settings)
             THEN gpc' = "returned" /\ generated' = built /\ raised' = raised
             ELSE gpc' = "raised" /\ raised' = "RuntimeError" /\ generated' = generated
    /\ UNCHANGED <<settings, rocket_type_allocation, allocation, transfers>>
    /\ UNCHANGED <<solver, solution, result, op>>
    /\ UNCHANGED engvars
    /\ UNCHANGED objvars

GenNext ==
    GenDrawTypes \/ GenCheck \/ GenAllocate \/ GenRepair \/ GenReturnAllocation \/ GenValidate

SpecGen == GenInit /\ [][GenNext]_vars

AllocNext == GenCheck \/ GenAllocate \/ GenRepair \/ GenReturnAllocation

SpecAlloc == AllocInit /\ [][AllocNext]_vars

\* The interpreter always executes the next statement of the running call.
FairSpecAlloc == SpecAlloc /\ WF_vars(AllocNext)

(***************************************************************************)
(* model.py: cost                                                          *)
(***************************************************************************)
\* calculate_cost with the second term, the rockets' own fuel, forgotten
calculate_cost_without_fuel(sol, s) ==
    LET types == sol.rocket_type_allocation
    IN  VSum([r \in DOMAIN types |->
                VSum([m \in 0..(s.num_module_types - 1) |->
                        sol.module_allocation[r][m] * s.additional_fuel_costs[types[r]][m]])])

\* np.sum(module_allocation * additional_fuel_costs[rocket_type_allocation, :])
\*   + np.sum(fuel_costs[rocket_type_allocation])
calculate_cost(sol, s) ==
    LET types == sol.rocket_type_allocation
        additional_fuel_cost ==
            VSum([r \in DOMAIN types |->
                    VSum([m \in 0..(s.num_module_types - 1) |->
                            sol.module_allocation[r][m] * s.additional_fuel_costs[types[r]][m]])])
        rockets_fuel_cost == VSum([r \in DOMAIN types |-> s.fuel_costs[types[r]]])
    IN  additional_fuel_cost + rockets_fuel_cost

(***************************************************************************)
(* algorithm.py: mutation operators.  A call either completes, leaving the *)
(* Solution it worked on, or raises.                                       *)
(***************************************************************************)
Completed(sol) == [ raised |-> "none", solution |-> sol ]
Raised(e, sol) == [ raised |-> e, solution |-> sol ]

\* __mutate_rockets_type_allocation with randrange's upper end included
mutate_rockets_type_allocation_inclusive(sol, s) ==
    { [sol EXCEPT !.rocket_type_allocation[rocket_index] = new_rocket_type] :
        rocket_index \in 0..(s.num_rockets - 1),
        new_rocket_type \in 0..s.num_rocket_types }

\* __mutate_rockets_type_allocation: one rocket gets a freshly drawn type
mutate_rockets_type_allocation(sol, s) ==
    { [sol EXCEPT !.rocket_type_allocation[rocket_index] = new_rocket_type] :
        rocket_index \in 0..(s.num_rockets - 1),
        new_rocket_type \in 0..(s.num_rocket_types - 1) }

\* max_module_amount, the destination's free capacity ignored
max_module_amount_unbounded(a, rocket_capacities, from_rocket_index, to_rocket_index, m) ==
    a[from_rocket_index][m]

\* max_module_amount, the units the source holds ignored
max_module_amount_by_capacity(a, rocket_capacities, from_rocket_index, to_rocket_index, m) ==
    rocket_capacities[to_rocket_index]

\* max_module_amount = min(units of the source, free capacity of the destination)
max_module_amount(a, rocket_capacities, from_rocket_index, to_rocket_index, m) ==
    Min2(a[from_rocket_index][m], rocket_capacities[to_rocket_index])

\* the two updates of the transfer, the destination's += forgotten
MoveModulesNoCredit(a, from_rocket_index, to_rocket_index, m, module_amount) ==
    [a EXCEPT ![from_rocket_index][m] = @ - module_amount]

\* module_allocation[from, m] -= module_amount; module_allocation[to, m] += module_amount
MoveModules(a, from_rocket_index, to_rocket_index, m, module_amount) ==
    LET minus == [a EXCEPT ![from_rocket_index][m] = @ - module_amount]
    IN  [minus EXCEPT ![to_rocket_index][m] = @ + module_amount]

\* __mutate_modules_allocation returning without a transfer when a candidate
\* array is empty
mutate_modules_allocation_or_skip(sol, s) ==
    LET a == sol.module_allocation
        rocket_capacities == [r \in DOMAIN a |-> s.rocket_capacity - RowSums(a)[r]]
        to_candidates == { r \in DOMAIN a : rocket_capacities[r] > 0 }
        from_candidates(m) == { r \in DOMAIN a : a[r][m] > 0 }
        moved(m) ==
            UNION { UNION { { Completed([sol EXCEPT !.module_allocation =
                                           MoveModules(a, f, t, m, module_amount)]) :
                                module_amount \in
                                    1..max_module_amount(a, rocket_capacities, f, t, m) } :
                            f \in from_candidates(m) } :
                    t \in to_candidates }
    IN  UNION { IF to_candidates = {} \/ from_candidates(module_type_index) = {}
                  THEN { Completed(sol) }
                  ELSE moved(module_type_index) :
                module_type_index \in 0..(s.num_module_types - 1) }

\* __mutate_modules_allocation.  random.choice raises IndexError on an empty
\* candidate array; the Solution is untouched until the last two statements.
mutate_modules_allocation(sol, s) ==
    LET a == sol.module_allocation
        rocket_capacities == [r \in DOMAIN a |-> s.rocket_capacity - RowSums(a)[r]]
        to_candidates == { r \in DOMAIN a : rocket_capacities[r] > 0 }
        from_candidates(m) == { r \in DOMAIN a : a[r][m] > 0 }
        moved(m) ==
            UNION { UNION { { Completed([sol EXCEPT !.module_allocation =
                                           MoveModules(a, f, t, m, module_amount)]) :
                                module_amount \in
                                    1..max_module_amount(a, rocket_capacities, f, t, m) } :
                            f \in from_candidates(m) } :
                    t \in to_candidates }
    IN  UNION { IF to_candidates = {} \/ from_candidates(module_type_index) = {}
                  THEN { Raised("IndexError", sol) }
                  ELSE moved(module_type_index) :
                module_type_index \in 0..(s.num_module_types - 1) }

RECURSIVE ModuleMutations(_, _, _)
\* `for _ in range(n): self.__mutate_modules_allocation(solution)` from every
\* outcome in outs; an outcome that raised has left the loop
ModuleMutations(outs, n, s) ==
    IF n = 0 THEN outs
    ELSE ModuleMutations(
             UNION { IF o.raised = "none" THEN mutate_modules_allocation(o.solution, s)
                                          ELSE { o } : o \in outs },
             n - 1, s)

RECURSIVE TypeMutations(_, _, _)
\* `for _ in range(n): self.__mutate_rockets_type_allocation(solution)`
TypeMutations(outs, n, s) ==
    IF n = 0 THEN outs
    ELSE TypeMutations(
             UNION { IF o.raised = "none"
                       THEN { Completed(x) : x \in mutate_rockets_type_allocation(o.solution, s) }
                       ELSE { o } : o \in outs },
             n - 1, s)

\* __mutate_solution: modules_mutations module transfers, then
\* rockets_type_mutations type draws, all on the same Solution
mutate_solution(sol, bs, s) ==
    TypeMutations(ModuleMutations({ Completed(sol) }, bs.modules_mutations, s),
                  bs.rockets_type_mutations, s)

\* sorted(candidates, key=cost)[0]: the sort is stable, so the first candidate of
\* least cost
FirstCheapest(candidates, s) ==
    candidates[CHOOSE i \in DOMAIN candidates :
                 /\ \A j \in DOMAIN candidates :
                      calculate_cost(candidates[j], s) >= calculate_cost(candidates[i], s)
                 /\ \A j \in DOMAIN candidates :
                      j < i => calculate_cost(candidates[j], s) > calculate_cost(candidates[i], s)]

\* the candidate list of __find_best_neighbour, the original left out
CandidatesWithoutOriginal(neighbours, sol) ==
    IF neighbours = <<>> THEN <<sol>> ELSE neighbours

\* neighbours.append(solution)
Candidates(neighbours, sol) == Append(neighbours, sol)

\* __find_best_neighbour: neighbours_count deep copies, each mutated in turn;
\* the first mutation that raises ends the call
find_best_neighbour(sol, neighbours_count, bs, s) ==
    LET passes == mutate_solution(sol, bs, s)
        clones == [1..neighbours_count -> passes]
        outcome(c) ==
            IF \E i \in 1..neighbours_count : c[i].raised # "none"
              THEN Raised(c[CHOOSE i \in 1..neighbours_count :
                              /\ c[i].raised # "none"
                              /\ \A j \in 1..(i - 1) : c[j].raised = "none"].raised, sol)
              ELSE Completed(FirstCheapest(
                       Candidates([i \in 1..neighbours_count |-> c[i].solution], sol), s))
    IN  { outcome(c) : c \in clones }

(***************************************************************************)
(* The operators of BeesSolver applied once to a feasible Solution.        *)
(***************************************************************************)
\* every Solution of the instance that satisfies both invariants
FeasibleSolutions(s) ==
    { Solution(types, a) : types \in generate_random_rockets_type_allocation(s),
                           a \in { x \in InitialAllocations(s) :
                                     is_valid_capacity(Solution(<<>>, x), s) } }

MutSolvers ==
    { BeesSolver(0, mm, rtm, 0, 0, 0, 0) : mm \in 0..MaxMutations, rtm \in 0..MaxMutations }

\* an operator is about to be applied to a Solution that satisfies both
\* invariants of one of the given instances
MutStartOn(instances, solvers) ==
    /\ settings \in instances
    /\ solver \in solvers
    /\ solution \in FeasibleSolutions(settings)
    /\ result = NoSolution
    /\ op = "none"
    /\ raised = "none"
    /\ gpc = "call"
    /\ rocket_type_allocation = <<>>
    /\ allocation = <<>>
    /\ generated = NoSolution
    /\ transfers = 0
    /\ population = <<>>
    /\ epc = "idle"
    /\ remaining = 0
    /\ returned = NoSolution
    /\ cost = <<>>
    /\ heap = <<>>
    /\ refs = <<>>
    /\ written = {}

MutStart(solvers) == MutStartOn({ s \in SettingsSet : ~NotEnoughCapacity(s) }, solvers)

\* a mutation operator is about to be applied to a feasible Solution
MutInit == MutStart({ NoSolver })

\* __find_best_neighbour is about to be called on a feasible Solution
NeighbourInit == MutStart(MutSolvers)

MutMutateModules ==
    /\ op = "none"
    /\ \E o \in mutate_modules_allocation(solution, settings) :
          /\ solution' = o.solution
          /\ raised' = o.raised
    /\ op' = "mutate_modules_allocation"
    /\ UNCHANGED <<settings, solver, result>>
    /\ UNCHANGED genvars
    /\ UNCHANGED objvars
    /\ UNCHANGED engvars

MutMutateTypes ==
    /\ op = "none"
    /\ solution' \in mutate_rockets_type_allocation(solution, settings)
    /\ op' = "mutate_rockets_type_allocation"
    /\ UNCHANGED <<settings, solver, result, raised>>
    /\ UNCHANGED genvars
    /\ UNCHANGED objvars
    /\ UNCHANGED engvars

MutFindBestNeighbour ==
    /\ op = "none"
    /\ \E neighbours_count \in 0..MaxSiteSize :
         \E o \in find_best_neighbour(solution, neighbours_count, solver, settings) :
            /\ raised' = o.raised
            /\ result' = IF o.raised = "none" THEN o.solution ELSE result
    /\ op' = "find_best_neighbour"
    /\ UNCHANGED <<settings, solver, solution>>
    /\ UNCHANGED genvars
    /\ UNCHANGED objvars
    /\ UNCHANGED engvars

MutNext == MutMutateModules \/ MutMutateTypes

SpecMut == MutInit /\ [][MutNext]_vars

NeighbourNext == MutFindBestNeighbour

SpecNeighbour == NeighbourInit /\ [][NeighbourNext]_vars

(***************************************************************************)
(* The module transfer applied, any number of times, to the Solution       *)
(* generate_random_solution returned.                                      *)
(***************************************************************************)
\* __mutate_modules_allocation(generated); the generator's locals are gone
GenMutateModules ==
    /\ gpc \in { "returned", "mutated" }
    /\ raised = "none"
    /\ \E o \in mutate_modules_allocation(generated, settings) :
          /\ generated' = o.solution
          /\ raised' = o.raised
    /\ gpc' = "mutated"
    /\ op' = "mutate_modules_allocation"
    /\ rocket_type_allocation' = <<>>
    /\ allocation' = <<>>
    /\ transfers' = 0
    /\ UNCHANGED <<settings, solver, solution, result>>
    /\ UNCHANGED engvars
    /\ UNCHANGED objvars

GenMutateNext == GenNext \/ GenMutateModules

SpecGenMutate == GenInit /\ [][GenMutateNext]_vars

(***************************************************************************)
(* calculate_cost applied once to a feasible Solution, under cost tables   *)
(* of either sign: the tables of src/example.py multiplied by a factor.    *)
(***************************************************************************)
CostFactors == { -1, 0, 1 }

WithCosts(s, k) ==
    [s EXCEPT !.additional_fuel_costs =
                  [t \in DOMAIN @ |-> [m \in DOMAIN @[t] |-> k * @[t][m]]],
              !.fuel_costs = [t \in DOMAIN @ |-> k * @[t]]]

CostInit ==
    MutStartOn({ WithCosts(s, k) : s \in { x \in SettingsSet : ~NotEnoughCapacity(x) },
                                   k \in CostFactors },
               { NoSolver })

\* calculate_cost(solution, settings) is called; it assigns to neither argument
CalculateCost ==
    /\ op = "none"
    /\ cost' = <<calculate_cost(solution, settings)>>
    /\ op' = "calculate_cost"
    /\ UNCHANGED <<settings, solver, solution, result, raised>>
    /\ UNCHANGED genvars
    /\ UNCHANGED objvars
    /\ UNCHANGED <<population, epc, remaining, returned>>

CostNext == CalculateCost

SpecCost == CostInit /\ [][CostNext]_vars

(***************************************************************************)
(* algorithm.py: the population.  The Python list self.population is a     *)
(* sequence; population[i] of the source is element i + 1 of it.           *)
(***************************************************************************)
RECURSIVE Repaired(_, _)
\* the allocation the while loop of generate_random_modules_allocation ends with
Repaired(a, s) == IF Overloaded(a, s) THEN Repaired(RepairStep(a, s), s) ELSE a

\* generate_random_solution as a whole: every Solution it can return, or the
\* exception it raises
generate_random_solution(s) ==
    IF NotEnoughCapacity(s)
      THEN { Raised("ValueError", NoSolution) }
      ELSE { LET built == Solution(types, Repaired(a, s))
             IN  IF is_valid_capacity(built, s) /\ is_valid_module_total(built, s)
                   THEN Completed(built)
                   ELSE Raised("RuntimeError", NoSolution) :
               types \in generate_random_rockets_type_allocation(s),
               a \in InitialAllocations(s) }

Kept(p) == [ raised |-> "none", population |-> p ]
Failed(e, p) == [ raised |-> e, population |-> p ]

\* [generate_random_solution(settings) for _ in range(population_size)]: the
\* list, or the first exception; the old list p stays when a call raises
random_population(p, bs, s) ==
    LET draws == [1..bs.population_size -> generate_random_solution(s)]
        outcome(d) ==
            IF \E i \in 1..bs.population_size : d[i].raised # "none"
              THEN Failed(d[CHOOSE i \in 1..bs.population_size :
                              /\ d[i].raised # "none"
                              /\ \A j \in 1..(i - 1) : d[j].raised = "none"].raised, p)
              ELSE Kept([i \in 1..bs.population_size |-> d[i].solution])
    IN  { outcome(d) : d \in draws }

\* the list left in the order it had: the sort forgotten
LeftUnsorted(p, s) == p

RECURSIVE SortedByCost(_, _)
\* list.sort(key=cost): ascending and stable
SortedByCost(p, s) ==
    IF p = <<>> THEN <<>>
    ELSE LET front == SortedByCost(SubSeq(p, 1, Len(p) - 1), s)
             last == p[Len(p)]
             \* last goes behind every element that does not cost more
             keep == Cardinality({ i \in 1..Len(front) :
                                     calculate_cost(front[i], s) <= calculate_cost(last, s) })
         IN  SubSeq(front, 1, keep) \o <<last>> \o SubSeq(front, keep + 1, Len(front))

\* the site size the loops of simulate_population use for slot i
SiteSize(i, bs) == IF i < bs.elite_sites THEN bs.elite_site_size ELSE bs.normal_site_size

RECURSIVE ReplaceFrom(_, _, _, _)
\* the three loops of simulate_population from slot i on, on the sorted list p;
\* reading population[i] past the end raises IndexError, and any exception
\* leaves the slots replaced so far
ReplaceFrom(p, i, bs, s) ==
    IF i < bs.elite_sites + bs.normal_sites
      THEN IF i >= Len(p)
             THEN { Failed("IndexError", p) }
             ELSE UNION { IF o.raised # "none"
                            THEN { Failed(o.raised, p) }
                            ELSE ReplaceFrom([p EXCEPT ![i + 1] = o.solution], i + 1, bs, s) :
                          o \in find_best_neighbour(p[i + 1], SiteSize(i, bs), bs, s) }
      ELSE IF i < Len(p)
             THEN UNION { IF o.raised # "none"
                            THEN { Failed(o.raised, p) }
                            ELSE ReplaceFrom([p EXCEPT ![i + 1] = o.solution], i + 1, bs, s) :
                          o \in generate_random_solution(s) }
             ELSE { Kept(p) }

\* simulate_population: sort, then sites, then scouts
simulate_population(p, bs, s) == ReplaceFrom(SortedByCost(p, s), 0, bs, s)

(***************************************************************************)
(* A BeesSolver in use: find_best_solution, or init_population followed by *)
(* simulate_population calls.                                              *)
(***************************************************************************)
EngineSettings ==
    { s \in SettingsSet : s.num_rockets = EngineRockets
                          /\ s.num_module_types = EngineModuleTypes }

\* every site is searched with at least one neighbour
EngineSolvers ==
    { BeesSolver(ps, mm, rtm, es, ns, ess, nss) :
        ps \in 0..MaxPopulationSize, mm \in 0..MaxMutations, rtm \in 0..MaxMutations,
        es \in 0..MaxSites, ns \in 0..MaxSites,
        ess \in 1..MaxSiteSize, nss \in 1..MaxSiteSize }

\* BeesSolver.__init__: fields stored, population = []
Init ==
    /\ settings \in EngineSettings
    /\ solver \in EngineSolvers
    /\ population = <<>>
    /\ epc = "idle"
    /\ remaining = 0
    /\ returned = NoSolution
    /\ cost = <<>>
    /\ heap = <<>>
    /\ refs = <<>>
    /\ written = {}
    /\ raised = "none"
    /\ op = "new"
    /\ solution = NoSolution
    /\ result = NoSolution
    /\ gpc = "call"
    /\ rocket_type_allocation = <<>>
    /\ allocation = <<>>
    /\ generated = NoSolution
    /\ transfers = 0

\* init_population().  The new list does not depend on the old one, so only the
\* seeding of a fresh solver is explored.
InitPopulation ==
    /\ epc = "idle" /\ op = "new"
    /\ \E o \in random_population(population, solver, settings) :
          /\ population' = o.population
          /\ raised' = o.raised
    /\ op' = "init_population"
    /\ cost' = <<>>
    /\ UNCHANGED <<settings, solver, epc, remaining, returned>>
    /\ UNCHANGED genvars
    /\ UNCHANGED objvars
    /\ UNCHANGED mutvars

\* simulate_population() called from outside
SimulatePopulation ==
    /\ epc = "idle"
    /\ \E o \in simulate_population(population, solver, settings) :
          /\ population' = o.population
          /\ raised' = o.raised
    /\ op' = "simulate_population"
    /\ cost' = <<>>
    /\ UNCHANGED <<settings, solver, epc, remaining, returned>>
    /\ UNCHANGED genvars
    /\ UNCHANGED objvars
    /\ UNCHANGED mutvars

\* find_best_solution(iterations), line 145: the population is drawn
FindBestSolutionStart ==
    /\ epc = "idle" /\ op = "new"
    /\ \E iterations \in 0..MaxIterations :
         \E o \in random_population(population, solver, settings) :
            /\ population' = o.population
            /\ raised' = o.raised
            /\ epc' = IF o.raised = "none" THEN "loop" ELSE "idle"
            /\ remaining' = IF o.raised = "none" THEN iterations ELSE 0
    /\ op' = "find_best_solution"
    /\ UNCHANGED <<settings, solver, returned, cost>>
    /\ UNCHANGED genvars
    /\ UNCHANGED objvars
    /\ UNCHANGED mutvars

\* find_best_solution, lines 147-148: one iteration of the loop
FindBestSolutionIterate ==
    /\ epc = "loop" /\ remaining > 0
    /\ \E o \in simulate_population(population, solver, settings) :
          /\ population' = o.population
          /\ raised' = o.raised
          /\ epc' = IF o.raised = "none" THEN "loop" ELSE "idle"
          /\ remaining' = IF o.raised = "none" THEN remaining - 1 ELSE 0
    /\ op' = "simulate_population"
    /\ UNCHANGED <<settings, solver, returned, cost>>
    /\ UNCHANGED genvars
    /\ UNCHANGED objvars
    /\ UNCHANGED mutvars

\* find_best_solution, line 150: return self.population[0]
FindBestSolutionReturn ==
    /\ epc = "loop" /\ remaining = 0
    /\ IF population = <<>>
         THEN raised' = "IndexError" /\ returned' = returned
         ELSE raised' = "none" /\ returned' = population[1]
    /\ epc' = "idle"
    /\ op' = "find_best_solution"
    /\ UNCHANGED <<settings, solver, population, remaining, cost>>
    /\ UNCHANGED genvars
    /\ UNCHANGED objvars
    /\ UNCHANGED mutvars

Next ==
    \/ InitPopulation
    \/ SimulatePopulation
    \/ FindBestSolutionStart
    \/ FindBestSolutionIterate
    \/ FindBestSolutionReturn

Spec == Init /\ [][Next]_vars

\* a returned cost, or the exception raised instead
Returned(c) == [ raised |-> "none", cost |-> <<c>> ]
NotReturned(e) == [ raised |-> e, cost |-> <<>> ]

\* current_cost reading the last element of the list
current_cost_of_last(p, s) ==
    IF p = <<>> THEN NotReturned("IndexError")
                ELSE Returned(calculate_cost(p[Len(p)], s))

\* current_cost: calculate_cost(self.population[0], self.settings); indexing an
\* empty list raises IndexError
current_cost(p, s) ==
    IF p = <<>> THEN NotReturned("IndexError")
                ELSE Returned(calculate_cost(p[1], s))

\* current_cost() called from outside, between two calls of the solver
CurrentCost ==
    /\ epc = "idle"
    /\ LET o == current_cost(population, settings)
       IN  raised' = o.raised /\ cost' = o.cost
    /\ op' = "current_cost"
    /\ UNCHANGED <<settings, solver, population, epc, remaining, returned>>
    /\ UNCHANGED genvars
    /\ UNCHANGED objvars
    /\ UNCHANGED mutvars

\* the solver driven step by step: init_population, then simulate_population
\* and current_cost in any order
StepwiseNext == InitPopulation \/ SimulatePopulation \/ CurrentCost

SpecStepwise == Init /\ [][StepwiseNext]_vars

\* the module transfer applied to a feasible Solution on its own, and the solver
\* whose generations apply it to the clones of its sites
CrashInit == MutInit \/ Init

CrashNext == MutMutateModules \/ (op # "none" /\ Next)

SpecCrash == CrashInit /\ [][CrashNext]_vars

(***************************************************************************)
(* algorithm.py with object identities.  A Solution is a mutable object:   *)
(* heap maps the identity of every object alive to its value, the list     *)
(* self.population holds identities, the mutation operators assign to the  *)
(* arrays of the object they are handed.                                   *)
(***************************************************************************)
\* the identity of the next object created: the first one not in use
NewId(h) ==
    CHOOSE n \in 0..Cardinality(DOMAIN h) :
        /\ n \notin DOMAIN h
        /\ \A k \in 0..(n - 1) : k \in DOMAIN h

\* the object id holding the value v; a new object when id is not alive yet
Store(h, id, v) == [x \in DOMAIN h \cup {id} |-> IF x = id THEN v ELSE h[x]]

\* a copy that is the object itself: no new object is made
same_object(h, id) == id

\* copy.deepcopy(solution): a new object, its arrays new objects too
deepcopy(h, id) == NewId(h)

RECURSIVE Cloned(_, _, _)
\* neighbours = [copy.deepcopy(solution) for _ in range(neighbours_count)]
Cloned(h, id, neighbours_count) ==
    IF neighbours_count = 0 THEN [ heap |-> h, neighbours |-> <<>> ]
    ELSE LET made == Cloned(h, id, neighbours_count - 1)
             n == deepcopy(made.heap, id)
         IN  [ heap |-> Store(made.heap, n, made.heap[id]),
               neighbours |-> Append(made.neighbours, n) ]

RECURSIVE MutatedFrom(_, _, _, _, _, _)
\* `for n in neighbours: self.__mutate_solution(n)` from neighbours[j - 1] on: the
\* mutation assigns to the arrays of the object n; w collects the objects changed
MutatedFrom(h, w, neighbours, j, bs, s) ==
    IF j > Len(neighbours)
      THEN { [ raised |-> "none", heap |-> h, written |-> w ] }
      ELSE LET n == neighbours[j]
           IN  UNION { LET h2 == Store(h, n, o.solution)
                           w2 == IF o.solution # h[n] THEN w \cup {n} ELSE w
                       IN  IF o.raised # "none"
                             THEN { [ raised |-> o.raised, heap |-> h2, written |-> w2 ] }
                             ELSE MutatedFrom(h2, w2, neighbours, j + 1, bs, s) :
                       o \in mutate_solution(h[n], bs, s) }

\* __find_best_neighbour on the object id: the object returned is a clone or id
\* itself
find_best_neighbour_of(h, w, id, neighbours_count, bs, s) ==
    LET made == Cloned(h, id, neighbours_count)
        candidates == Append(made.neighbours, id)
        best(h2) ==
            candidates[CHOOSE i \in DOMAIN candidates :
                /\ \A j \in DOMAIN candidates :
                     calculate_cost(h2[candidates[j]], s) >= calculate_cost(h2[candidates[i]], s)
                /\ \A j \in DOMAIN candidates :
                     j < i => calculate_cost(h2[candidates[j]], s)
                                > calculate_cost(h2[candidates[i]], s)]
    IN  { [ raised |-> m.raised, heap |-> m.heap, written |-> m.written,
            ref |-> IF m.raised = "none" THEN best(m.heap) ELSE id ] :
          m \in MutatedFrom(made.heap, w, made.neighbours, 1, bs, s) }

RECURSIVE SortedRefs(_, _, _)
\* self.population.sort(key=cost) on the list of objects: ascending and stable
SortedRefs(rs, h, s) ==
    IF rs = <<>> THEN <<>>
    ELSE LET front == SortedRefs(SubSeq(rs, 1, Len(rs) - 1), h, s)
             last == rs[Len(rs)]
             keep == Cardinality({ i \in 1..Len(front) :
                                     calculate_cost(h[front[i]], s) <= calculate_cost(h[last], s) })
         IN  SubSeq(front, 1, keep) \o <<last>> \o SubSeq(front, keep + 1, Len(front))

Outcome(e, h, w, rs) == [ raised |-> e, heap |-> h, written |-> w, refs |-> rs ]

RECURSIVE ReplaceRefsFrom(_, _, _, _, _, _)
\* the three loops of simulate_population from slot i on: population[i] = ...
\* stores the object returned in the slot
ReplaceRefsFrom(h, w, rs, i, bs, s) ==
    IF i < bs.elite_sites + bs.normal_sites
      THEN IF i >= Len(rs)
             THEN { Outcome("IndexError", h, w, rs) }
             ELSE UNION { IF o.raised # "none"
                            THEN { Outcome(o.raised, o.heap, o.written, rs) }
                            ELSE ReplaceRefsFrom(o.heap, o.written,
                                                 [rs EXCEPT ![i + 1] = o.ref], i + 1, bs, s) :
                          o \in find_best_neighbour_of(h, w, rs[i + 1], SiteSize(i, bs), bs, s) }
      ELSE IF i < Len(rs)
             THEN UNION { IF o.raised # "none"
                            THEN { Outcome(o.raised, h, w, rs) }
                            ELSE ReplaceRefsFrom(Store(h, NewId(h), o.solution), w,
                                                 [rs EXCEPT ![i + 1] = NewId(h)], i + 1, bs, s) :
                          o \in generate_random_solution(s) }
             ELSE { Outcome("none", h, w, rs) }

\* the objects the list rs still refers to; the others are garbage
Alive(h, rs) == [id \in { rs[i] : i \in 1..Len(rs) } |-> h[id]]

\* init_population(): population_size new objects, or the first exception
HeapInitPopulation ==
    /\ epc = "idle" /\ op = "new"
    /\ \E o \in random_population(<<>>, solver, settings) :
          /\ raised' = o.raised
          /\ refs' = IF o.raised = "none" THEN [i \in 1..Len(o.population) |-> i - 1] ELSE refs
          /\ heap' = IF o.raised = "none"
                       THEN [id \in 0..(Len(o.population) - 1) |-> o.population[id + 1]]
                       ELSE heap
    /\ written' = {}
    /\ op' = "init_population"
    /\ UNCHANGED <<settings, solver>>
    /\ UNCHANGED genvars
    /\ UNCHANGED mutvars
    /\ UNCHANGED engvars

\* simulate_population() called from outside
HeapSimulatePopulation ==
    /\ epc = "idle"
    /\ \E o \in ReplaceRefsFrom(heap, {}, SortedRefs(refs, heap, settings), 0, solver, settings) :
          /\ raised' = o.raised
          /\ refs' = o.refs
          /\ heap' = Alive(o.heap, o.refs)
          /\ written' = o.written
    /\ op' = "simulate_population"
    /\ UNCHANGED <<settings, solver>>
    /\ UNCHANGED genvars
    /\ UNCHANGED mutvars
    /\ UNCHANGED engvars

HeapNext == HeapInitPopulation \/ HeapSimulatePopulation

SpecHeap == Init /\ [][HeapNext]_vars

(***************************************************************************)
(* Properties of the random generator                                      *)
(***************************************************************************)
Feasible(s) == ~NotEnoughCapacity(s)

\* C1: on a feasible Configuration generate_random_solution never raises, and
\* the Solution it returns has every row sum <= rocket_capacity and every
\* column sum equal to module_amounts.
C1_GeneratorNeverFails ==
    Feasible(settings) =>
        /\ raised = "none"
        /\ gpc = "returned" =>
              /\ \A r \in 0..(settings.num_rockets - 1) :
                    RowSums(generated.module_allocation)[r] <= settings.rocket_capacity
              /\ ColSums(generated.module_allocation, settings.num_module_types)
                    = settings.module_amounts

\* a Solution was returned after the repair loop had to move modules twice
C1_Witness == gpc = "returned" /\ transfers >= 2 /\ Feasible(settings)

\* C8: on a feasible Configuration the capacity-repair loop ends, whatever the
\* multinomial draws were, and it never makes more than
\* num_rockets * num_module_types transfers.
C8_RepairTerminates ==
    /\ [](Feasible(settings) =>
            transfers <= settings.num_rockets * settings.num_module_types)
    /\ (Feasible(settings) ~> (gpc = "allocated" /\ ~Overloaded(allocation, settings)))

\* the loop has run and left an allocation without an overloaded rocket
C8_Witness ==
    /\ gpc = "allocated" /\ transfers >= 2
    /\ ~Overloaded(allocation, settings)

\* C9: on an infeasible Configuration nothing is drawn or allocated before the
\* feasibility check rejects the call.
C9_RejectedBeforeAnyWork ==
    NotEnoughCapacity(settings) =>
        /\ rocket_type_allocation = <<>>
        /\ allocation = <<>>

(***************************************************************************)
(* Properties of the mutation operators and of the neighbourhood search    *)
(***************************************************************************)
\* C3: a module transfer that finds a destination with free capacity and a
\* source holding the drawn module type leaves every column sum as it was and
\* every row sum <= rocket_capacity, whichever rockets and amount it draws.
C3_TransferKeepsInvariants ==
    [][(op' = "mutate_modules_allocation" /\ raised' = "none") =>
          /\ ColSums(solution'.module_allocation, settings.num_module_types)
               = ColSums(solution.module_allocation, settings.num_module_types)
          /\ \A r \in 0..(settings.num_rockets - 1) :
               RowSums(solution'.module_allocation)[r] <= settings.rocket_capacity]_vars

\* a transfer completed and left a rocket filled to its capacity beside an empty one
C3_Witness ==
    /\ op = "mutate_modules_allocation" /\ raised = "none"
    /\ \E r \in 0..(settings.num_rockets - 1) :
         RowSums(solution.module_allocation)[r] = settings.rocket_capacity
    /\ \E r \in 0..(settings.num_rockets - 1) : RowSums(solution.module_allocation)[r] = 0
    /\ settings.rocket_capacity > 1

\* C4: the type mutation leaves module_allocation as it was, changes at most one
\* entry of rocket_type_allocation, leaves every entry in [0, num_rocket_types),
\* and so keeps both invariants.
C4_TypeMutationFrame ==
    [][op' = "mutate_rockets_type_allocation" =>
          /\ solution'.module_allocation = solution.module_allocation
          /\ Cardinality({ r \in 0..(settings.num_rockets - 1) :
                             solution'.rocket_type_allocation[r]
                               # solution.rocket_type_allocation[r] }) <= 1
          /\ \A r \in 0..(settings.num_rockets - 1) :
               solution'.rocket_type_allocation[r] \in 0..(settings.num_rocket_types - 1)
          /\ is_valid_capacity(solution', settings)
          /\ is_valid_module_total(solution', settings)]_vars

\* a type mutation ran on a fleet of several rockets now holding different types
C4_Witness ==
    /\ op = "mutate_rockets_type_allocation"
    /\ \E r, q \in 0..(settings.num_rockets - 1) :
         solution.rocket_type_allocation[r] # solution.rocket_type_allocation[q]

\* C5: the Solution __find_best_neighbour returns never costs more than the
\* Solution it was given.
C5_NeighbourNotWorse ==
    (op = "find_best_neighbour" /\ raised = "none") =>
        calculate_cost(result, settings) <= calculate_cost(solution, settings)

\* a search over mutated clones returned a strictly cheaper Solution
C5_Witness ==
    /\ op = "find_best_neighbour" /\ raised = "none"
    /\ calculate_cost(result, settings) < calculate_cost(solution, settings)

(***************************************************************************)
(* Properties of the population                                            *)
(***************************************************************************)
\* the least cost found in a non-empty population
MinCost(p, s) ==
    CHOOSE c \in { calculate_cost(p[i], s) : i \in 1..Len(p) } :
        \A i \in 1..Len(p) : c <= calculate_cost(p[i], s)

SiteCount(bs) == bs.elite_sites + bs.normal_sites

\* C2: every Solution held in the population satisfies the capacity and the
\* demand invariant, after init_population and after every generation.
C2_PopulationFeasible ==
    \A i \in 1..Len(population) :
        /\ is_valid_capacity(population[i], settings)
        /\ is_valid_module_total(population[i], settings)

\* a generation that mutated the clones of a site ended normally and left two
\* different allocations in the population
C2_Witness ==
    /\ op = "simulate_population" /\ raised = "none"
    /\ solver.elite_sites >= 1 /\ solver.modules_mutations >= 1
    /\ Len(population) = 2
    /\ population[1].module_allocation # population[2].module_allocation
    /\ settings.rocket_capacity > 1

\* C6 as claimed: whenever elite_sites + normal_sites <= population_size, zero
\* sites included, a generation never raises the least cost of the population.
C6_BestCostNeverRises ==
    [][(op' = "simulate_population" /\ population # <<>>
        /\ SiteCount(solver) <= solver.population_size) =>
          MinCost(population', settings) <= MinCost(population, settings)]_vars

\* C6 amended: with at least one site (1 <= elite_sites + normal_sites <=
\* population_size) a generation never raises the least cost of the population.
C6_BestCostNeverRisesWithASite ==
    [][(op' = "simulate_population" /\ population # <<>>
        /\ SiteCount(solver) >= 1
        /\ SiteCount(solver) <= solver.population_size) =>
          MinCost(population', settings) <= MinCost(population, settings)]_vars

\* a generation with one site and one scout ended normally, the scout slot now
\* holding the cheaper Solution
C6_Witness ==
    /\ op = "simulate_population" /\ raised = "none"
    /\ SiteCount(solver) = 1 /\ solver.population_size = 2
    /\ calculate_cost(population[2], settings) < calculate_cost(population[1], settings)

\* C7: the Solution find_best_solution returns costs as little as the cheapest
\* individual of the final population.
C7_ReturnsCheapest ==
    (op = "find_best_solution" /\ epc = "idle" /\ raised = "none") =>
        calculate_cost(returned, settings) = MinCost(population, settings)

\* C10: a solver with elite_sites + normal_sites > population_size is rejected
\* before any population is initialised.
C10_RejectedBeforePopulation ==
    SiteCount(solver) > solver.population_size => population = <<>>

\* the cost of the individual of rank i (0 the cheapest) in the population p:
\* fewer than i + 1 individuals cost less, at least i + 1 cost as much or less
RankedCost(p, s, i) ==
    CHOOSE c \in { calculate_cost(p[j], s) : j \in 1..Len(p) } :
        /\ Cardinality({ j \in 1..Len(p) : calculate_cost(p[j], s) < c }) <= i
        /\ Cardinality({ j \in 1..Len(p) : calculate_cost(p[j], s) <= c }) > i

\* C14: after a simulate_population call every slot i < elite_sites + normal_sites
\* holds an individual that costs no more than the individual of rank i of the
\* population as it was before the call; a call that completes has filled all of
\* these slots.
C14_SiteSlotsNotWorse ==
    [][op' = "simulate_population" =>
          /\ raised' = "none" => SiteCount(solver) <= Len(population')
          /\ \A i \in 0..(SiteCount(solver) - 1) :
                i < Len(population') =>
                    calculate_cost(population'[i + 1], settings)
                        <= RankedCost(population, settings, i)]_vars

\* a generation with an elite and a normal site ended normally; the search of
\* the second site found an individual cheaper than the one now in the first
C14_Witness ==
    /\ op = "simulate_population" /\ raised = "none"
    /\ solver.elite_sites = 1 /\ solver.normal_sites = 1
    /\ Len(population) = 2
    /\ calculate_cost(population[2], settings) < calculate_cost(population[1], settings)

(***************************************************************************)
(* Properties of the cost function                                         *)
(***************************************************************************)
RECURSIVE SumOfTerms(_)
\* the sum of the values of a function with a finite domain
SumOfTerms(f) ==
    IF DOMAIN f = {} THEN 0
    ELSE LET x == CHOOSE x \in DOMAIN f : TRUE
         IN  f[x] + SumOfTerms([y \in DOMAIN f \ {x} |-> f[y]])

NonNegativeTables(s) ==
    /\ \A t \in DOMAIN s.fuel_costs : s.fuel_costs[t] >= 0
    /\ \A t \in DOMAIN s.additional_fuel_costs :
          \A m \in DOMAIN s.additional_fuel_costs[t] : s.additional_fuel_costs[t][m] >= 0

\* C12: calculate_cost returns the sum over all pairs (r, m) of
\* module_allocation[r, m] * additional_fuel_costs[rocket_type_allocation[r], m]
\* plus the sum over all rockets r of fuel_costs[rocket_type_allocation[r]]; the
\* result is >= 0 when the tables and the allocation are nonnegative; neither
\* argument is modified.
C12_CostIsTheDoubleSum ==
    [][op' = "calculate_cost" =>
          LET types == solution.rocket_type_allocation
              pairs == (0..(settings.num_rockets - 1)) \X (0..(settings.num_module_types - 1))
              modules_term ==
                  SumOfTerms([p \in pairs |->
                                solution.module_allocation[p[1]][p[2]]
                                  * settings.additional_fuel_costs[types[p[1]]][p[2]]])
              rockets_term ==
                  SumOfTerms([r \in 0..(settings.num_rockets - 1) |->
                                settings.fuel_costs[types[r]]])
          IN  /\ cost' = <<modules_term + rockets_term>>
              /\ NonNegativeTables(settings) => cost'[1] >= 0
              /\ solution' = solution
              /\ settings' = settings]_vars

\* the cost of a Solution with rockets of both types, each loaded with modules of
\* two types, was computed
C12_Witness ==
    /\ op = "calculate_cost"
    /\ settings.num_module_types = 2
    /\ \E r, q \in 0..(settings.num_rockets - 1) :
          /\ solution.rocket_type_allocation[r] = 0
          /\ solution.rocket_type_allocation[q] = 1
          /\ solution.module_allocation[r][0] > 0
          /\ solution.module_allocation[q][1] > 0
    /\ cost[1] > 0

\* C15: the neighbourhood searches of a generation change no object that existed
\* before the call (the Solution searched and every other member of the
\* population included), and no two slots of the population ever hold the same
\* object.
C15_NoSharedSolution ==
    /\ [](\A i, j \in 1..Len(refs) : refs[i] = refs[j] => i = j)
    /\ [][op' = "simulate_population" =>
            /\ written' \cap DOMAIN heap = {}
            /\ \A id \in DOMAIN heap \cap DOMAIN heap' : heap'[id] = heap[id]]_vars

\* a generation mutated a clone in place and stored it in a slot beside another
\* member
C15_Witness ==
    /\ op = "simulate_population" /\ raised = "none"
    /\ Len(refs) = 2
    /\ refs[1] \in written

\* no rocket of the Solution has remaining capacity > 0
NoFreeCapacity(sol, s) ==
    \A r \in DOMAIN sol.module_allocation :
        RowSums(sol.module_allocation)[r] >= s.rocket_capacity

\* no rocket of the Solution holds a unit of module type m
NoneHolds(sol, m) == \A r \in DOMAIN sol.module_allocation : sol.module_allocation[r][m] = 0

\* every feasible Solution of the instance is full, or holds no module at all
NoTransferPossible(s) ==
    \/ VSum(s.module_amounts) = s.num_rockets * s.rocket_capacity
    \/ VSum(s.module_amounts) = 0

\* C16: the module transfer raises IndexError, without skipping or retrying, when
\* no rocket has free capacity or no rocket holds the drawn module type, and only
\* then; the Solution it was applied to keeps both arrays; a generation whose
\* first site meets the error stops there, no slot replaced, and the error leaves
\* simulate_population and find_best_solution.
C16_TransferCrashes ==
    /\ [][op' = "mutate_modules_allocation" =>
            /\ (NoFreeCapacity(solution, settings)
                  \/ \A m \in 0..(settings.num_module_types - 1) : NoneHolds(solution, m))
                 => raised' = "IndexError"
            /\ raised' # "none" =>
                 /\ raised' = "IndexError"
                 /\ solution' = solution
                 /\ \/ NoFreeCapacity(solution, settings)
                    \/ \E m \in 0..(settings.num_module_types - 1) : NoneHolds(solution, m)]_vars
    /\ [][(op' = "simulate_population" /\ population # <<>>
            /\ SiteCount(solver) >= 1 /\ solver.modules_mutations >= 1
            /\ NoTransferPossible(settings)) =>
              /\ raised' = "IndexError"
              /\ population' = SortedByCost(population, settings)
              /\ epc' = "idle" /\ remaining' = 0
              /\ returned' = returned]_vars

\* find_best_solution was left by the IndexError of a module transfer on a full
\* fleet: its population is there, nothing was returned
C16_Witness ==
    /\ op = "simulate_population" /\ raised = "IndexError"
    /\ Len(population) = 2 /\ SiteCount(solver) = 1
    /\ solver.modules_mutations >= 1
    /\ VSum(settings.module_amounts) = settings.num_rockets * settings.rocket_capacity

NonNegative(a) == \A r \in DOMAIN a : \A m \in DOMAIN a[r] : a[r][m] >= 0

\* C17: every entry of the allocation is nonnegative after the multinomial
\* draws and after every single transfer of the capacity-repair loop, in the
\* Solution generate_random_solution returns, and after every module transfer
\* applied to that Solution.
C17_EntriesNonNegative ==
    /\ NonNegative(allocation)
    /\ NonNegative(generated.module_allocation)

\* a module transfer took every unit a rocket of the generated Solution held,
\* on an instance the repair loop had to work on
C17_Witness ==
    /\ op = "mutate_modules_allocation" /\ raised = "none"
    /\ VSum(settings.module_amounts) > settings.rocket_capacity
    /\ \E r \in 0..(settings.num_rockets - 1) : RowSums(generated.module_allocation)[r] = 0

\* C11 as claimed: current_cost returns the least cost found in the population
\* and leaves the population as it was.
C11_ReturnsMinimum ==
    [][(op' = "current_cost" /\ population # <<>>) =>
          /\ cost' = <<MinCost(population, settings)>>
          /\ population' = population]_vars

\* C11 amended: current_cost returns the cost of population[0], the individual in
\* the first slot, whatever the other slots hold, raises IndexError when the
\* population is empty, and leaves the population as it was.
C11_ReturnsCostOfFirst ==
    [][op' = "current_cost" =>
          /\ population' = population
          /\ IF population = <<>>
               THEN raised' = "IndexError" /\ cost' = <<>>
               ELSE raised' = "none"
                    /\ cost' = <<calculate_cost(population[1], settings)>>]_vars

\* current_cost ran after a generation and returned a cost that differs from the
\* cost of the second individual
C11_Witness ==
    /\ op = "current_cost" /\ raised = "none"
    /\ Len(population) = 2
    /\ SiteCount(solver) >= 1
    /\ cost # <<calculate_cost(population[2], settings)>>
====
